---- MODULE Spec2Model ----
(***************************************************************************)
(* Navigability engine of windspotter: calculateSlots, buildSlot,          *)
(* averageDirection and dirText, as written in src/utils/navigability.ts   *)
(* (web app) and functions/src/navigability.ts (cloud functions).          *)
(*                                                                         *)
(* One invocation of calculateSlots is a small state machine: Enter        *)
(* filters the day window and initialises the locals, LoopStep runs one    *)
(* iteration of the for-loop, Finish is the emission after the loop and    *)
(* Return hands the slot list to the caller.  Speeds and gusts are         *)
(* integers, directions are integer degrees.                               *)
(*                                                                         *)
(* Around the engine: dirText and averageDirection called on their own     *)
(* (SpecCompass, SpecAverager), the merge of a user's preferences into the *)
(* global config (SpecMerge) and the refreshForecast callable with its     *)
(* Firestore lock and one-hour cache (SpecLock).  Each specification       *)
(* leaves the variables of the others at their idle values.                *)
(***************************************************************************)
EXTENDS Integers, Sequences, FiniteSets

VARIABLES
    hourly,      \* argument: the day's HourlyData[]
    config,      \* argument: the NavigabilityConfig
    variant,     \* which copy of calculateSlots runs: "app" or "functions"
    validHours,  \* local: hourly filtered to the day window
    i,           \* local: 1-based position of the for-loop in validHours
    slots,       \* local: NavigableSlot[] built so far; the return value
    runStart,    \* local: hour at which the active run began, -1 if none
    runHours,    \* local: samples of the active run
    pc,          \* position of the function under study: "call", "loop",
                 \* "done", "returned", "threw" in calculateSlots
    history,     \* completed invocations, oldest first (args and result)
    deg,         \* dirText: its argument, in hundredths of a degree
    label,       \* dirText: the label returned, "" before the call
    directions,  \* averageDirection: its argument, integer degrees
    average,     \* averageDirection: the value returned
    globalConfig,    \* config merge: the global config, {} when null
    preferences,     \* config merge: the user's preferences, {} when none
    effectiveConfig, \* config merge: the config returned, {} when null
    configDocs,  \* Firestore: config/spots and config/navigability exist
    lockDoc,     \* Firestore forecasts/_lock: {} or {age of lockedAt in ms}
    forecastDoc, \* Firestore forecasts/latest: {} or {age of updatedAt}
    calls,       \* the refreshForecast invocations, one record each
    user,        \* account: TRUE when a user is signed in
    storedPrefs, \* account: users/{uid}/settings/preferences, {} if absent
    notifDoc,    \* schedule: config/notifications, {} if absent
    clock,       \* schedule: Europe/Zurich hour of the next scheduled run
    sentHours,   \* schedule: hours of the runs that went on to send
    spots,       \* payload: the NavigableSpotInfo[] argument
    lines,       \* payload: the lines of the body built
    subs,        \* sending: the push subscriptions and their tasks
    timestamps,  \* ingestion: the UTC instants of a spot's data, in order
    timezone,    \* ingestion: navConfig.timezone
    dayWindow,   \* ingestion: <<dayStartHour, dayEndHour>> of navConfig
    days,        \* ingestion: the DayForecast list built, by date
    spotConfigs, \* App: pointIds of the configured spots, in order
    data,        \* App: pointIds of the forecast spots, {} while no data
    refreshing,  \* App: a refresh call is in flight
    syncRetries, \* App: syncRetriesRef.current
    forced,      \* App: forced refreshes triggered since the spots were loaded
    configLoaded \* useConfig: loadConfig has set the spots

engineVars == <<hourly, config, variant, validHours, i, slots, runStart,
                runHours, history>>

compassVars == <<deg, label>>

averagerVars == <<directions, average>>

mergeVars == <<globalConfig, preferences, effectiveConfig>>

lockVars == <<configDocs, lockDoc, forecastDoc, calls>>

accountVars == <<user, storedPrefs>>

scheduleVars == <<notifDoc, clock, sentHours>>

payloadVars == <<spots, lines>>

sendVars == <<subs>>

ingestVars == <<timestamps, timezone, dayWindow, days>>

appVars == <<spotConfigs, data, refreshing, syncRetries, forced,
             configLoaded>>

\* the state of the notification, ingestion and App parts
laterVars == <<accountVars, scheduleVars, payloadVars, sendVars, ingestVars,
               appVars>>

\* the state outside calculateSlots
serviceVars == <<compassVars, averagerVars, mergeVars, lockVars, laterVars>>

\* the state of the engine, its helpers, the merge and the lock
coreVars == <<engineVars, compassVars, averagerVars, mergeVars, lockVars>>

vars == <<engineVars, pc, serviceVars>>

(***************************************************************************)
(* Bounds of the model.                                                    *)
(***************************************************************************)
MaxLen == 3        \* longest hourly sequence of a single invocation
MaxHour == 2       \* hours of the day range over 0..MaxHour
MaxMinHours == 2   \* minConsecutiveHours ranges over 1..MaxMinHours
MaxCalls == 3      \* invocations in one behaviour of SpecCalls
MaxLenCalls == 2   \* longest hourly sequence in SpecCalls
MaxCenti == 36000  \* dirText arguments range over 0.00 .. 360.00 degrees
MaxDirs == 3       \* longest list given to averageDirection on its own
MaxCallers == 2    \* concurrent invocations of refreshForecast
MaxNavigable == 6  \* most navigable spots given to buildNotificationPayload
MaxSubs == 2       \* documents of pushSubscriptions
MaxInstant == 5    \* forecast instants range over 0..MaxInstant
MaxStamps == 3     \* most timestamps of one spot in buildSpotForecast
MaxSpotConfigs == 3 \* most spots of config/spots

Hours == 0..MaxHour

\* (speed, gust, dir) of a sample.  With the thresholds of Configs, Calm and
\* Gustless are never navigable, Good always is and Strong is above the
\* speed ceiling.
Calm == [speed |-> 1, gust |-> 3, dir |-> 180]

Gustless == [speed |-> 2, gust |-> 1, dir |-> 180]

Good == [speed |-> 2, gust |-> 3, dir |-> 10]

Strong == [speed |-> 3, gust |-> 4, dir |-> 350]

Winds == {Calm, Gustless, Good, Strong}

\* HourlyData (the dirText and sun fields are never read by calculateSlots)
SamplesOf(ws) ==
    { [hour |-> hr, speed |-> w.speed, gust |-> w.gust, dir |-> w.dir] :
        hr \in Hours, w \in ws }

Samples == SamplesOf(Winds)

SeqsUpTo(S, n) == UNION { [1..k -> S] : k \in 0..n }

\* ascending by hour, no hour twice
Ascending(hs) == \A a, b \in 1..Len(hs) : a < b => hs[a].hour < hs[b].hour

\* the days as the forecast document holds them: sorted by hour
SortedDays == { d \in SeqsUpTo(Samples, MaxLen) : Ascending(d) }

\* any HourlyData[]: hours in any order and repeated, of calm and good wind
ShuffledDays == SeqsUpTo(SamplesOf({Calm, Good}), MaxLen)

Days == SortedDays \cup ShuffledDays

\* NavigabilityConfig.  windSpeedMax is the set of its values: {} when the
\* field is missing from the config document, {v} when it is v.
Windows == { <<0, MaxHour + 1>>, <<1, MaxHour>> }

Configs ==
    { [ windSpeedMin |-> 2,
        windSpeedMax |-> mx,
        gustMin |-> 2,
        minConsecutiveHours |-> mn,
        dayStartHour |-> w[1],
        dayEndHour |-> w[2] ] :
        mx \in {{}, {2}}, mn \in 1..MaxMinHours, w \in Windows }

Variants == {"app", "functions"}

\* windows that hold no hour at all: dayEndHour <= dayStartHour
EmptyWindows == { <<1, 1>>, <<MaxHour, 0>> }

\* configs as a config document can hold them: minConsecutiveHours may be 0
\* and the window may be empty or inverted
AnyConfigs ==
    { [ windSpeedMin |-> 2,
        windSpeedMax |-> {2},
        gustMin |-> 2,
        minConsecutiveHours |-> mn,
        dayStartHour |-> w[1],
        dayEndHour |-> w[2] ] :
        mn \in 0..MaxMinHours, w \in Windows \cup EmptyWindows }

(***************************************************************************)
(* Math.round(num / den) for den > 0: floor(num/den + 1/2).                *)
(***************************************************************************)
MathRound(num, den) == (2 * num + den) \div (2 * den)

RECURSIVE SumOf(_, _)
\* hours.reduce((sum, h) => sum + h.<field>, 0)
SumOf(hs, field) ==
    IF hs = <<>> THEN 0
    ELSE (IF field = "speed" THEN Head(hs).speed ELSE Head(hs).gust)
         + SumOf(Tail(hs), field)

(***************************************************************************)
(* Trigonometry in fixed point.  SinTab[k+1] = round(10000 * sin(k/2 deg)) *)
(* for k = 0..180; Sin2 and Cos2 take an angle in half degrees.            *)
(***************************************************************************)
SinTab ==
  << 0, 87, 175, 262, 349, 436, 523, 610, 698, 785, 872, 958,
     1045, 1132, 1219, 1305, 1392, 1478, 1564, 1650, 1736, 1822, 1908, 1994,
     2079, 2164, 2250, 2334, 2419, 2504, 2588, 2672, 2756, 2840, 2924, 3007,
     3090, 3173, 3256, 3338, 3420, 3502, 3584, 3665, 3746, 3827, 3907, 3987,
     4067, 4147, 4226, 4305, 4384, 4462, 4540, 4617, 4695, 4772, 4848, 4924,
     5000, 5075, 5150, 5225, 5299, 5373, 5446, 5519, 5592, 5664, 5736, 5807,
     5878, 5948, 6018, 6088, 6157, 6225, 6293, 6361, 6428, 6494, 6561, 6626,
     6691, 6756, 6820, 6884, 6947, 7009, 7071, 7133, 7193, 7254, 7314, 7373,
     7431, 7490, 7547, 7604, 7660, 7716, 7771, 7826, 7880, 7934, 7986, 8039,
     8090, 8141, 8192, 8241, 8290, 8339, 8387, 8434, 8480, 8526, 8572, 8616,
     8660, 8704, 8746, 8788, 8829, 8870, 8910, 8949, 8988, 9026, 9063, 9100,
     9135, 9171, 9205, 9239, 9272, 9304, 9336, 9367, 9397, 9426, 9455, 9483,
     9511, 9537, 9563, 9588, 9613, 9636, 9659, 9681, 9703, 9724, 9744, 9763,
     9781, 9799, 9816, 9833, 9848, 9863, 9877, 9890, 9903, 9914, 9925, 9936,
     9945, 9954, 9962, 9969, 9976, 9981, 9986, 9990, 9994, 9997, 9998, 10000,
     10000 >>

Sin2(h) ==
    LET a == h % 720 IN
    IF a <= 180 THEN SinTab[a + 1]
    ELSE IF a <= 360 THEN SinTab[360 - a + 1]
    ELSE IF a <= 540 THEN 0 - SinTab[a - 360 + 1]
    ELSE 0 - SinTab[720 - a + 1]

Cos2(h) == Sin2(h + 180)

RECURSIVE SinSum(_)
SinSum(ds) ==
    IF ds = <<>> THEN 0
    ELSE Sin2(2 * Head(ds)) + SinSum(Tail(ds))

RECURSIVE CosSum(_)
CosSum(ds) ==
    IF ds = <<>> THEN 0
    ELSE Cos2(2 * Head(ds)) + CosSum(Tail(ds))

\* z-component of b x v for the unit vector b at half-degree angle h:
\* non-negative exactly when v is at or counter-clockwise of b (within 180).
Cross(h, s, c) == Cos2(h) * s - Sin2(h) * c

Dot(h, s, c) == Cos2(h) * c + Sin2(h) * s

(***************************************************************************)
(* Rounding of the sines and cosines.  Math.sin((deg * Math.PI) / 180) is  *)
(* a double: SinErr(d) is that double minus the exact sine of d degrees,   *)
(* in units of 10^-18, and CosErr(d) likewise for Math.cos.  The two are   *)
(* tabulated for the directions the model uses.  sin(180 deg) is 1.22e-16  *)
(* and not 0, and sin(350 deg) + sin(10 deg) is -9.4e-16 and not 0.        *)
(***************************************************************************)
SinErr(d) ==
    CASE d = 0 -> 0
      [] d = 1 -> -1
      [] d = 10 -> -18
      [] d = 180 -> 122
      [] d = 350 -> -926
      [] d = 359 -> -936

CosErr(d) ==
    CASE d = 0 -> 0
      [] d = 1 -> 30
      [] d = 10 -> -39
      [] d = 180 -> 0
      [] d = 350 -> -150
      [] d = 359 -> 30

RECURSIVE SinErrSum(_)
SinErrSum(ds) ==
    IF ds = <<>> THEN 0 ELSE SinErr(Head(ds)) + SinErrSum(Tail(ds))

RECURSIVE CosErrSum(_)
CosErrSum(ds) ==
    IF ds = <<>> THEN 0 ELSE CosErr(Head(ds)) + CosErrSum(Tail(ds))

(***************************************************************************)
(* Math.round of atan2(y, x) in degrees, after adding 360 to a negative    *)
(* angle, for (y, x) # (0, 0): the angle a lies in [0, 360) when y >= 0    *)
(* and in (0, 360) when y < 0, and the result is the r in 0..360 with      *)
(* r - 0.5 <= a < r + 0.5.  A negative y with a positive x, however small, *)
(* gives an angle just below 360 and so 360.                               *)
(***************************************************************************)
RoundedAngle(y, x) ==
    LET InSector(r) ==
            IF r = 0 THEN y >= 0 /\ Cross(1, y, x) < 0 /\ x > 0
            ELSE IF r = 360 THEN y < 0 /\ Cross(719, y, x) >= 0 /\ x > 0
            ELSE /\ Cross(2 * r - 1, y, x) >= 0
                 /\ Cross(2 * r + 1, y, x) < 0
                 /\ Dot(2 * r, y, x) > 0
    IN  CHOOSE r \in 0..360 : InSector(r)

(***************************************************************************)
(* averageDirection.  sinSum and cosSum are the exact sums plus the        *)
(* rounding of their terms: where the exact sums do not vanish they decide *)
(* the angle, where the exact sine sum vanishes the sign of the rounding   *)
(* decides between 0 and 360, and where both vanish the roundings alone    *)
(* are the vector whose angle is taken; atan2(0, 0) = 0.                   *)
(***************************************************************************)
AverageDirection(ds) ==
    LET s == SinSum(ds)
        c == CosSum(ds)
        es == SinErrSum(ds)
        ec == CosErrSum(ds)
    IN  IF s = 0 /\ c = 0
        THEN IF es = 0 /\ ec = 0 THEN 0 ELSE RoundedAngle(es, ec)
        ELSE IF s = 0 /\ c > 0
        THEN IF es < 0 THEN 360 ELSE 0
        ELSE RoundedAngle(s, c)

(***************************************************************************)
(* dirText: dirs[Math.round(deg / 22.5) % 16], for an integer degrees >= 0.*)
(***************************************************************************)
dirs ==
    << "N", "NNE", "NE", "ENE", "E", "ESE", "SE", "SSE",
       "S", "SSO", "SO", "OSO", "O", "ONO", "NO", "NNO" >>

\* variation: no % 16, so that index 16 reads past the end of dirs
DirTextNoWrap(degrees) ==
    LET k == MathRound(2 * degrees, 45)
    IN  IF k < 16 THEN dirs[k + 1] ELSE "undefined"

DirText(degrees) == dirs[(MathRound(2 * degrees, 45) % 16) + 1]

\* variation: the quotient truncated instead of rounded
DirTextCentiFloor(c) == dirs[((c \div 2250) % 16) + 1]

\* dirText for an argument of c hundredths of a degree: deg / 22.5 is
\* c / 2250.  The half-way quotients (c an odd multiple of 1125) are exact
\* in binary floating point, so the rounding is the rounding of the exact
\* quotient.
DirTextCenti(c) == dirs[(MathRound(c, 2250) % 16) + 1]

DirsOf(hs) == [k \in 1..Len(hs) |-> hs[k].dir]

\* variation: the means taken over one sample more than the run has
BuildSlotOffByOne(startHour, hs) ==
    [ start |-> startHour,
      end |-> hs[Len(hs)].hour + 1,
      hours |-> Len(hs),
      avgSpeed |-> MathRound(SumOf(hs, "speed"), Len(hs) + 1),
      avgGust |-> MathRound(SumOf(hs, "gust"), Len(hs) + 1),
      direction |-> DirText(AverageDirection(DirsOf(hs))) ]

\* variation: end is the last hour itself, not the hour after it
BuildSlotEndInclusive(startHour, hs) ==
    [ start |-> startHour,
      end |-> hs[Len(hs)].hour,
      hours |-> Len(hs),
      avgSpeed |-> MathRound(SumOf(hs, "speed"), Len(hs)),
      avgGust |-> MathRound(SumOf(hs, "gust"), Len(hs)),
      direction |-> DirText(AverageDirection(DirsOf(hs))) ]

(***************************************************************************)
(* buildSlot(startHour, hours), for a non-empty hours.                     *)
(***************************************************************************)
BuildSlot(startHour, hs) ==
    [ start |-> startHour,
      end |-> hs[Len(hs)].hour + 1,
      hours |-> Len(hs),
      avgSpeed |-> MathRound(SumOf(hs, "speed"), Len(hs)),
      avgGust |-> MathRound(SumOf(hs, "gust"), Len(hs)),
      direction |-> DirText(AverageDirection(DirsOf(hs))) ]

(***************************************************************************)
(* calculateSlots, piece by piece.                                         *)
(***************************************************************************)
\* variation: the lower edge of the window left out
InWindowFromZero(h, cfg) == h.hour < cfg.dayEndHour

\* variation: the upper edge of the window taken inclusive
InWindowInclusive(h, cfg) ==
    h.hour >= cfg.dayStartHour /\ h.hour <= cfg.dayEndHour

\* the predicate of hourly.filter(...)
InWindow(h, cfg) == h.hour >= cfg.dayStartHour /\ h.hour < cfg.dayEndHour

\* variation: no filtering, every sample of the day is scanned
FilterWindowNone(hs, cfg) == hs

\* const validHours = hourly.filter(...)
FilterWindow(hs, cfg) == SelectSeq(hs, LAMBDA h : InWindow(h, cfg))

\* variation: the minimum-speed test left out
IsNavigableGustOnly(h, cfg, v) ==
    /\ (v = "functions" => \E m \in cfg.windSpeedMax : h.speed <= m)
    /\ h.gust >= cfg.gustMin

\* const isNavigable = ...; the functions copy also tests the ceiling, and
\* a comparison with a missing windSpeedMax is false.
IsNavigable(h, cfg, v) ==
    /\ h.speed >= cfg.windSpeedMin
    /\ (v = "functions" => \E m \in cfg.windSpeedMax : h.speed <= m)
    /\ h.gust >= cfg.gustMin

\* const slots = []; let runStart = -1; let runHours = [];
FreshLocals == [slots |-> <<>>, runStart |-> -1, runHours |-> <<>>]

\* variation: any non-empty run is emitted
EmitRunAnyLength(loc, cfg) ==
    IF Len(loc.runHours) >= 1
    THEN Append(loc.slots, BuildSlot(loc.runStart, loc.runHours))
    ELSE loc.slots

\* variation: unshift instead of push
EmitRunPrepend(loc, cfg) ==
    IF Len(loc.runHours) >= cfg.minConsecutiveHours
    THEN <<BuildSlot(loc.runStart, loc.runHours)>> \o loc.slots
    ELSE loc.slots

\* if (runHours.length >= config.minConsecutiveHours) slots.push(buildSlot(..))
EmitRun(loc, cfg) ==
    IF Len(loc.runHours) >= cfg.minConsecutiveHours
    THEN Append(loc.slots, BuildSlot(loc.runStart, loc.runHours))
    ELSE loc.slots

\* variation: runStart is never set
LoopBodyNoStart(loc, h, cfg, v) ==
    IF IsNavigable(h, cfg, v)
    THEN [ slots |-> loc.slots,
           runStart |-> loc.runStart,
           runHours |-> Append(loc.runHours, h) ]
    ELSE [ slots |-> EmitRun(loc, cfg),
           runStart |-> -1,
           runHours |-> <<>> ]

\* variation: a run is also closed when the sample's hour does not follow
\* the hour of the run's last sample
LoopBodyAdjacent(loc, h, cfg, v) ==
    IF IsNavigable(h, cfg, v)
    THEN IF /\ loc.runHours # <<>>
            /\ h.hour # loc.runHours[Len(loc.runHours)].hour + 1
         THEN [ slots |-> EmitRun(loc, cfg),
                runStart |-> h.hour,
                runHours |-> <<h>> ]
         ELSE [ slots |-> loc.slots,
                runStart |-> IF loc.runStart = -1 THEN h.hour
                             ELSE loc.runStart,
                runHours |-> Append(loc.runHours, h) ]
    ELSE [ slots |-> EmitRun(loc, cfg),
           runStart |-> -1,
           runHours |-> <<>> ]

\* variation: the buffer is cleared only when a slot was emitted
LoopBodyKeepShort(loc, h, cfg, v) ==
    IF IsNavigable(h, cfg, v)
    THEN [ slots |-> loc.slots,
           runStart |-> IF loc.runStart = -1 THEN h.hour ELSE loc.runStart,
           runHours |-> Append(loc.runHours, h) ]
    ELSE IF Len(loc.runHours) >= cfg.minConsecutiveHours
         THEN [ slots |-> EmitRun(loc, cfg),
                runStart |-> -1,
                runHours |-> <<>> ]
         ELSE loc

\* the body of the for-loop, on the locals loc and the sample h
LoopBody(loc, h, cfg, v) ==
    IF IsNavigable(h, cfg, v)
    THEN [ slots |-> loc.slots,
           runStart |-> IF loc.runStart = -1 THEN h.hour ELSE loc.runStart,
           runHours |-> Append(loc.runHours, h) ]
    ELSE [ slots |-> EmitRun(loc, cfg),
           runStart |-> -1,
           runHours |-> <<>> ]

RECURSIVE ScanFrom(_, _, _, _)
\* the for-loop over the samples valid, starting from the locals loc
ScanFrom(loc, valid, cfg, v) ==
    IF valid = <<>> THEN loc
    ELSE ScanFrom(LoopBody(loc, Head(valid), cfg, v), Tail(valid), cfg, v)

\* calculateSlots as a function of its arguments
CalculateSlots(hs, cfg, v) ==
    EmitRun(ScanFrom(FreshLocals, FilterWindow(hs, cfg), cfg, v), cfg)

Locals == [slots |-> slots, runStart |-> runStart, runHours |-> runHours]

\* the emission test passes on an empty buffer: buildSlot(runStart, []) reads
\* hours[hours.length - 1].hour of undefined, a TypeError
Throws(loc, cfg) ==
    Len(loc.runHours) >= cfg.minConsecutiveHours /\ loc.runHours = <<>>

\* the for-loop is at a statement that emits: the else branch of the
\* iteration on a non-navigable sample, or the emission after the loop
AtEmission ==
    \/ i > Len(validHours)
    \/ i <= Len(validHours) /\ ~IsNavigable(validHours[i], config, variant)

(***************************************************************************)
(* The state machine.                                                      *)
(***************************************************************************)
\* no dirText call is under study
CompassIdle == deg = 0 /\ label = ""

\* no averageDirection call is under study
AveragerIdle == directions = <<>> /\ average = 0

\* no config merge is under study
MergeIdle == globalConfig = {} /\ preferences = {} /\ effectiveConfig = {}

\* no refreshForecast invocation is under study
LockIdle ==
    configDocs = TRUE /\ lockDoc = {} /\ forecastDoc = {} /\ calls = <<>>

\* no sign-in is under study
AccountIdle == user = FALSE /\ storedPrefs = {}

\* no scheduled run is under study
ScheduleIdle == notifDoc = {} /\ clock = 0 /\ sentHours = {}

\* no notification payload is under study
PayloadIdle == spots = <<>> /\ lines = <<>>

\* no sendNotificationsToAll call is under study
SendIdle == subs = <<>>

\* no buildSpotForecast call is under study
IngestIdle ==
    /\ timestamps = <<>>
    /\ timezone = "UTC"
    /\ dayWindow = <<0, 0>>
    /\ days = <<>>

\* no App component is under study
AppIdle ==
    /\ spotConfigs = <<>>
    /\ data = {}
    /\ refreshing = FALSE
    /\ syncRetries = [key |-> <<>>, count |-> 0]
    /\ forced = 0
    /\ configLoaded = FALSE

LaterIdle ==
    /\ AccountIdle
    /\ ScheduleIdle
    /\ PayloadIdle
    /\ SendIdle
    /\ IngestIdle
    /\ AppIdle

ServicesIdle ==
    CompassIdle /\ AveragerIdle /\ MergeIdle /\ LockIdle /\ LaterIdle

\* no calculateSlots call is under study
EngineIdle ==
    /\ hourly = <<>>
    /\ config = CHOOSE c \in Configs : c.windSpeedMax # {}
    /\ variant = "app"
    /\ validHours = <<>>
    /\ i = 1
    /\ slots = <<>>
    /\ runStart = -1
    /\ runHours = <<>>
    /\ history = <<>>

InitWith(inputs) ==
    /\ hourly \in inputs
    /\ config \in Configs
    /\ variant \in Variants
    \* the app copy never reads windSpeedMax: one value of it is enough there
    /\ variant = "app" => config.windSpeedMax # {}
    /\ validHours = <<>>
    /\ i = 1
    /\ slots = <<>>
    /\ runStart = -1
    /\ runHours = <<>>
    /\ pc = "call"
    /\ history = <<>>
    /\ ServicesIdle

Init == InitWith(Days)

InitCalls == InitWith({ d \in ShuffledDays : Len(d) <= MaxLenCalls })

\* one invocation under any config document
InitAnyConfig ==
    /\ hourly \in { d \in ShuffledDays : Len(d) <= MaxLenCalls }
    /\ config \in AnyConfigs
    /\ variant \in Variants
    /\ validHours = <<>>
    /\ i = 1
    /\ slots = <<>>
    /\ runStart = -1
    /\ runHours = <<>>
    /\ pc = "call"
    /\ history = <<>>
    /\ ServicesIdle

\* variation: slots lives outside the function and is not re-created
EnterStale ==
    /\ pc = "call"
    /\ validHours' = FilterWindow(hourly, config)
    /\ i' = 1
    /\ runStart' = FreshLocals.runStart
    /\ runHours' = FreshLocals.runHours
    /\ pc' = "loop"
    /\ UNCHANGED serviceVars
    /\ UNCHANGED <<hourly, config, variant, history, slots>>

\* entry of calculateSlots: the filter and the declarations of the locals
Enter ==
    /\ pc = "call"
    /\ validHours' = FilterWindow(hourly, config)
    /\ i' = 1
    /\ slots' = FreshLocals.slots
    /\ runStart' = FreshLocals.runStart
    /\ runHours' = FreshLocals.runHours
    /\ pc' = "loop"
    /\ UNCHANGED serviceVars
    /\ UNCHANGED <<hourly, config, variant, history>>

\* one iteration of for (const h of validHours)
LoopStep ==
    /\ pc = "loop"
    /\ i <= Len(validHours)
    /\ ~(AtEmission /\ Throws(Locals, config))
    /\ LET next == LoopBody(Locals, validHours[i], config, variant) IN
        /\ slots' = next.slots
        /\ runStart' = next.runStart
        /\ runHours' = next.runHours
    /\ i' = i + 1
    /\ UNCHANGED serviceVars
    /\ UNCHANGED <<hourly, config, variant, validHours, pc, history>>

\* variation: the run still open at the end of the sequence is dropped
FinishNoEmit ==
    /\ pc = "loop"
    /\ i > Len(validHours)
    /\ pc' = "done"
    /\ UNCHANGED serviceVars
    /\ UNCHANGED <<hourly, config, variant, validHours, i, slots, runStart,
                   runHours, history>>

\* the emission after the loop; slots is then the value returned
Finish ==
    /\ pc = "loop"
    /\ i > Len(validHours)
    /\ ~Throws(Locals, config)
    /\ slots' = EmitRun(Locals, config)
    /\ pc' = "done"
    /\ UNCHANGED serviceVars
    /\ UNCHANGED <<hourly, config, variant, validHours, i, runStart,
                   runHours, history>>

\* buildSlot raises in an emission: the invocation ends with the exception
Throw ==
    /\ pc = "loop"
    /\ AtEmission
    /\ Throws(Locals, config)
    /\ pc' = "threw"
    /\ UNCHANGED serviceVars
    /\ UNCHANGED <<hourly, config, variant, validHours, i, slots, runStart,
                   runHours, history>>

\* return slots: the caller has the result
Return ==
    /\ pc = "done"
    /\ history' = Append(history, [hourly |-> hourly, config |-> config,
                                   result |-> slots])
    /\ pc' = "returned"
    /\ UNCHANGED serviceVars
    /\ UNCHANGED <<hourly, config, variant, validHours, i, slots, runStart,
                   runHours>>

\* a fixed day with one two-hour run, used as the other caller's input
OtherHourly ==
    << [hour |-> 0, speed |-> 2, gust |-> 3, dir |-> 350],
       [hour |-> 1, speed |-> 2, gust |-> 3, dir |-> 350] >>

\* a further invocation: the first invocation's arguments again, or the
\* other caller's day under the same config
CallAgain ==
    /\ pc = "returned"
    /\ Len(history) < MaxCalls
    /\ hourly' \in {history[1].hourly, OtherHourly}
    /\ pc' = "call"
    /\ UNCHANGED serviceVars
    /\ UNCHANGED <<config, variant, validHours, i, slots, runStart,
                   runHours, history>>

Next == Enter \/ LoopStep \/ Finish \/ Return

NextCalls == Next \/ CallAgain

Spec == Init /\ [][Next]_vars

SpecCalls == InitCalls /\ [][NextCalls]_vars

NextAnyConfig == Next \/ Throw

(***************************************************************************)
(* dirText called on its own, on every argument from 0.00 to MaxCenti/100. *)
(***************************************************************************)
InitCompass ==
    /\ deg \in 0..MaxCenti
    /\ label = ""
    /\ pc = "dirText"
    /\ EngineIdle
    /\ AveragerIdle
    /\ MergeIdle
    /\ LockIdle
    /\ LaterIdle

CallDirText ==
    /\ pc = "dirText"
    /\ label' = DirTextCenti(deg)
    /\ pc' = "labelled"
    /\ UNCHANGED <<engineVars, deg, averagerVars, mergeVars, lockVars,
                   laterVars>>

NextCompass == CallDirText

(***************************************************************************)
(* averageDirection called on its own, and its result labelled as buildSlot*)
(* does.  The lists are of even directions or of odd directions: a pair of *)
(* one even and one odd direction has a mean of exactly half a degree,     *)
(* whose rounding the last bit of atan2 decides.                           *)
(***************************************************************************)
EvenDirs == {0, 10, 180, 350}

OddDirs == {1, 359}

DirLists ==
    (SeqsUpTo(EvenDirs, MaxDirs) \cup SeqsUpTo(OddDirs, MaxDirs)) \ {<<>>}

InitAverager ==
    /\ directions \in DirLists
    /\ average = 0
    /\ pc = "averageDirection"
    /\ EngineIdle
    /\ CompassIdle
    /\ MergeIdle
    /\ LockIdle
    /\ LaterIdle

\* const avgDir = averageDirection(hours.map((h) => h.dir))
CallAverageDirection ==
    /\ pc = "averageDirection"
    /\ average' = AverageDirection(directions)
    /\ pc' = "averaged"
    /\ UNCHANGED <<engineVars, compassVars, directions, mergeVars, lockVars,
                   laterVars>>

\* direction: dirText(avgDir)
LabelAverage ==
    /\ pc = "averaged"
    /\ label' = DirText(average)
    /\ pc' = "labelled"
    /\ UNCHANGED <<engineVars, deg, averagerVars, mergeVars, lockVars,
                   laterVars>>

NextAverager == CallAverageDirection \/ LabelAverage

SpecAverager == InitAverager /\ [][NextAverager]_vars

(***************************************************************************)
(* The effective config of a user: useEffectiveConfig in the web app and   *)
(* the effectiveNav of computeNavigableSpotsForUser in the cloud           *)
(* functions.  A value that may be null is the set of its values.          *)
(***************************************************************************)
\* the thresholds taken when the user has no preferences document
DefaultWindSpeedMin == 15

DefaultGustMin == 25

\* NavigabilityConfig documents, with their timezone
GlobalConfigs ==
    { [ windSpeedMin |-> 2,
        windSpeedMax |-> mx,
        gustMin |-> 2,
        minConsecutiveHours |-> mn,
        dayStartHour |-> w[1],
        dayEndHour |-> w[2],
        timezone |-> tz ] :
        mx \in {{}, {2}}, mn \in 1..MaxMinHours, w \in Windows,
        tz \in {"Europe/Zurich", "UTC"} }

\* UserPreferences documents
Preferences ==
    { [windSpeedMin |-> a, gustMin |-> g, forecastDays |-> 3] :
        a \in {2, 3}, g \in {2, 4} }

\* variation: the speed ceiling is not carried over
OverrideDropCeiling(g, p) ==
    [g EXCEPT !.windSpeedMin = p.windSpeedMin, !.gustMin = p.gustMin,
              !.windSpeedMax = {}]

\* { ...g, windSpeedMin: p.windSpeedMin, gustMin: p.gustMin }
Override(g, p) ==
    [g EXCEPT !.windSpeedMin = p.windSpeedMin, !.gustMin = p.gustMin]

\* the value of useEffectiveConfig(global) under the preferences prefs
UseEffectiveConfig(global, prefs) ==
    IF global = {} THEN {}
    ELSE IF prefs = {} THEN global
    ELSE { Override(g, p) : g \in global, p \in prefs }

\* effectiveNav of computeNavigableSpotsForUser, prefsDoc being the user's
\* preferences document, {} when it does not exist
EffectiveNav(globalNav, prefsDoc) ==
    LET prefs == IF prefsDoc # {} THEN prefsDoc
                 ELSE { [ windSpeedMin |-> DefaultWindSpeedMin,
                          gustMin |-> DefaultGustMin ] }
    IN  { Override(globalNav, p) : p \in prefs }

InitMerge ==
    /\ globalConfig \in {{}} \cup { {g} : g \in GlobalConfigs }
    /\ preferences \in {{}} \cup { {p} : p \in Preferences }
    /\ effectiveConfig = {}
    /\ pc \in {"useEffectiveConfig", "computeNavigableSpotsForUser"}
    \* the forecast context exists only with a global config
    /\ pc = "computeNavigableSpotsForUser" => globalConfig # {}
    /\ EngineIdle
    /\ CompassIdle
    /\ AveragerIdle
    /\ LockIdle
    /\ LaterIdle

CallUseEffectiveConfig ==
    /\ pc = "useEffectiveConfig"
    /\ effectiveConfig' = UseEffectiveConfig(globalConfig, preferences)
    /\ pc' = "effectiveConfig"
    /\ UNCHANGED <<engineVars, compassVars, averagerVars, globalConfig,
                   preferences, lockVars, laterVars>>

\* the first statements of computeNavigableSpotsForUser
BuildEffectiveNav ==
    /\ pc = "computeNavigableSpotsForUser"
    /\ effectiveConfig' =
          UNION { EffectiveNav(g, preferences) : g \in globalConfig }
    /\ pc' = "effectiveNav"
    /\ UNCHANGED <<engineVars, compassVars, averagerVars, globalConfig,
                   preferences, lockVars, laterVars>>

NextMerge == CallUseEffectiveConfig \/ BuildEffectiveNav

SpecMerge == InitMerge /\ [][NextMerge]_vars

(***************************************************************************)
(* Where the preferences of the merge come from: the auth listener of      *)
(* AuthContext in the frontend, the read of the preferences document in    *)
(* computeNavigableSpotsForUser in the backend.  user says whether someone *)
(* is signed in, storedPrefs is users/{uid}/settings/preferences.          *)
(***************************************************************************)
\* DEFAULT_USER_PREFERENCES
DefaultUserPreferences ==
    [windSpeedMin |-> DefaultWindSpeedMin, gustMin |-> DefaultGustMin,
     forecastDays |-> 2]

InitAccount ==
    /\ user \in BOOLEAN
    /\ storedPrefs \in {{}} \cup { {p} : p \in Preferences }
    \* a visitor has no document
    /\ ~user => storedPrefs = {}
    /\ globalConfig \in {{}} \cup { {g} : g \in GlobalConfigs }
    /\ preferences = {}
    /\ effectiveConfig = {}
    /\ pc \in {"onAuthStateChanged", "prefsSnap"}
    \* a subscription belongs to a user, and the forecast context exists
    \* only with a global config
    /\ pc = "prefsSnap" => user /\ globalConfig # {}
    /\ EngineIdle
    /\ CompassIdle
    /\ AveragerIdle
    /\ LockIdle
    /\ ScheduleIdle
    /\ PayloadIdle
    /\ SendIdle
    /\ IngestIdle
    /\ AppIdle

\* the onAuthStateChanged callback; a failed read gives the defaults too
LoadPreferences ==
    /\ pc = "onAuthStateChanged"
    /\ \E readOk \in BOOLEAN :
          preferences' =
              IF ~user THEN {}
              ELSE IF readOk /\ storedPrefs # {} THEN storedPrefs
              ELSE {DefaultUserPreferences}
    /\ pc' = "useEffectiveConfig"
    /\ UNCHANGED <<engineVars, compassVars, averagerVars, globalConfig,
                   effectiveConfig, lockVars, laterVars>>

\* prefsSnap = await db.doc(`users/${uid}/settings/preferences`).get()
ReadPrefsSnap ==
    /\ pc = "prefsSnap"
    /\ preferences' = storedPrefs
    /\ pc' = "computeNavigableSpotsForUser"
    /\ UNCHANGED <<engineVars, compassVars, averagerVars, globalConfig,
                   effectiveConfig, lockVars, laterVars>>

NextAccount ==
    \/ LoadPreferences
    \/ ReadPrefsSnap
    \/ CallUseEffectiveConfig
    \/ BuildEffectiveNav

SpecAccount == InitAccount /\ [][NextAccount]_vars

(***************************************************************************)
(* refreshForecast, acquireLock and releaseLock of functions/src/index.ts. *)
(* Every await is a step of its own, so invocations interleave between     *)
(* their Firestore operations.  The invocations of one behaviour run       *)
(* within a span in which the documents do not age: a document keeps the   *)
(* age it has, and a document written has age 0.                           *)
(***************************************************************************)
LOCK_TTL_MS == 120000

DATA_TTL_MS == 3600000

Callers == 1..MaxCallers

\* ages of a lock document found at the start: just valid, just stale
LockAges == {LOCK_TTL_MS - 1, LOCK_TTL_MS}

\* ages of a forecast document found at the start: just fresh, just old
DataAges == {DATA_TTL_MS - 1, DATA_TTL_MS}

\* Date.now() - updatedAt.toMillis() < DATA_TTL_MS, on an existing document
IsFresh(doc) == \E age \in doc : age < DATA_TTL_MS

\* Date.now() - lockedAt.toMillis() < LOCK_TTL_MS, on an existing document
IsValidLock(doc) == \E age \in doc : age < LOCK_TTL_MS

\* an invocation before its first statement
NewCall(f) ==
    [ pc |-> "start", force |-> f, status |-> "", freshAtCall |-> FALSE,
      lockTried |-> FALSE, wrote |-> FALSE, acquired |-> FALSE,
      released |-> FALSE ]

InitLock ==
    /\ configDocs \in BOOLEAN
    /\ lockDoc \in {{}} \cup { {a} : a \in LockAges }
    /\ forecastDoc \in {{}} \cup { {a} : a \in DataAges }
    /\ calls \in [Callers -> { NewCall(f) : f \in BOOLEAN }]
    /\ pc = "refreshForecast"
    /\ EngineIdle
    /\ CompassIdle
    /\ AveragerIdle
    /\ MergeIdle
    /\ LaterIdle

\* the invocation p is between acquireLock returning true and the end of
\* releaseLock
Holds(p) == calls[p].pc \in {"fetch", "write", "release"}

\* step 0: the config documents are read; without them the call fails
ReadConfig(p) ==
    /\ calls[p].pc = "start"
    /\ calls' = [calls EXCEPT ![p] =
          IF ~configDocs
          THEN [@ EXCEPT !.pc = "returned", !.status = "failed-precondition",
                         !.freshAtCall = IsFresh(forecastDoc)]
          ELSE [@ EXCEPT !.pc = IF calls[p].force THEN "lockGet"
                               ELSE "checkFresh",
                         !.freshAtCall = IsFresh(forecastDoc)]]
    /\ UNCHANGED <<engineVars, pc, compassVars, averagerVars, mergeVars,
                   laterVars, configDocs, lockDoc, forecastDoc>>

\* variation: the freshness test is left out
CheckFreshNever(p) ==
    /\ calls[p].pc = "checkFresh"
    /\ calls' = [calls EXCEPT ![p].pc = "lockGet"]
    /\ UNCHANGED <<engineVars, pc, compassVars, averagerVars, mergeVars,
                   laterVars, configDocs, lockDoc, forecastDoc>>

\* step 1: fresh data ends the call with status 'fresh'
CheckFresh(p) ==
    /\ calls[p].pc = "checkFresh"
    /\ calls' = [calls EXCEPT ![p] =
          IF IsFresh(forecastDoc)
          THEN [@ EXCEPT !.pc = "returned", !.status = "fresh"]
          ELSE [@ EXCEPT !.pc = "lockGet"]]
    /\ UNCHANGED <<engineVars, pc, compassVars, averagerVars, mergeVars,
                   laterVars, configDocs, lockDoc, forecastDoc>>

\* acquireLock: lockRef.get() and the test of the lock's age
LockGet(p) ==
    /\ calls[p].pc = "lockGet"
    /\ calls' = [calls EXCEPT ![p] =
          [@ EXCEPT !.lockTried = TRUE,
                    !.pc = IF IsValidLock(lockDoc) THEN "sleep"
                           ELSE IF lockDoc # {} THEN "lockDelete"
                           ELSE "lockCreate"]]
    /\ UNCHANGED <<engineVars, pc, compassVars, averagerVars, mergeVars,
                   laterVars, configDocs, lockDoc, forecastDoc>>

\* acquireLock: lockRef.delete() of the lock found stale
LockDelete(p) ==
    /\ calls[p].pc = "lockDelete"
    /\ lockDoc' = {}
    /\ calls' = [calls EXCEPT ![p].pc = "lockCreate"]
    /\ UNCHANGED <<engineVars, pc, compassVars, averagerVars, mergeVars,
                   laterVars, configDocs, forecastDoc>>

\* acquireLock: lockRef.create(), which fails when the document exists
LockCreate(p) ==
    /\ calls[p].pc = "lockCreate"
    /\ IF lockDoc = {}
       THEN /\ lockDoc' = {0}
            /\ calls' = [calls EXCEPT ![p] =
                  [@ EXCEPT !.pc = "fetch", !.acquired = TRUE]]
       ELSE /\ lockDoc' = lockDoc
            /\ calls' = [calls EXCEPT ![p].pc = "sleep"]
    /\ UNCHANGED <<engineVars, pc, compassVars, averagerVars, mergeVars,
                   laterVars, configDocs, forecastDoc>>

\* the lock was not acquired: sleep, then answer from the existing data
WaitAndReturn(p) ==
    /\ calls[p].pc = "sleep"
    /\ calls' = [calls EXCEPT ![p] =
          [@ EXCEPT !.pc = "returned",
                    !.status = IF forecastDoc # {} THEN "waited"
                               ELSE "unavailable"]]
    /\ UNCHANGED <<engineVars, pc, compassVars, averagerVars, mergeVars,
                   laterVars, configDocs, lockDoc, forecastDoc>>

\* steps 3 and 4: the fetches and the build; a failed fetch leaves the try
\* block through finally
Fetch(p) ==
    /\ calls[p].pc = "fetch"
    /\ \E ok \in BOOLEAN :
          calls' = [calls EXCEPT ![p] =
              IF ok THEN [@ EXCEPT !.pc = "write"]
              ELSE [@ EXCEPT !.pc = "release", !.status = "error"]]
    /\ UNCHANGED <<engineVars, pc, compassVars, averagerVars, mergeVars,
                   laterVars, configDocs, lockDoc, forecastDoc>>

\* step 5: forecasts/latest is written; a failed write leaves the try block
\* through finally
WriteForecast(p) ==
    /\ calls[p].pc = "write"
    /\ \E ok \in BOOLEAN :
          /\ forecastDoc' = IF ok THEN {0} ELSE forecastDoc
          /\ calls' = [calls EXCEPT ![p] =
                IF ok THEN [@ EXCEPT !.pc = "release", !.wrote = TRUE,
                                     !.status = "refreshed"]
                ELSE [@ EXCEPT !.pc = "release", !.status = "error"]]
    /\ UNCHANGED <<engineVars, pc, compassVars, averagerVars, mergeVars,
                   laterVars, configDocs, lockDoc>>

\* variation: the lock is released after a successful write only
ReleaseLockOnSuccess(p) ==
    /\ calls[p].pc = "release"
    /\ lockDoc' = IF calls[p].status = "error" THEN lockDoc ELSE {}
    /\ calls' = [calls EXCEPT ![p] =
          [@ EXCEPT !.pc = "returned",
                    !.released = calls[p].status # "error"]]
    /\ UNCHANGED <<engineVars, pc, compassVars, averagerVars, mergeVars,
                   laterVars, configDocs, forecastDoc>>

\* step 6, releaseLock in finally: the lock document is deleted, then the
\* result or the error reaches the caller
ReleaseLock(p) ==
    /\ calls[p].pc = "release"
    /\ lockDoc' = {}
    /\ calls' = [calls EXCEPT ![p] =
          [@ EXCEPT !.pc = "returned", !.released = TRUE]]
    /\ UNCHANGED <<engineVars, pc, compassVars, averagerVars, mergeVars,
                   laterVars, configDocs, forecastDoc>>

NextLock ==
    \E p \in Callers :
        \/ ReadConfig(p)
        \/ CheckFresh(p)
        \/ LockGet(p)
        \/ LockDelete(p)
        \/ LockCreate(p)
        \/ WaitAndReturn(p)
        \/ Fetch(p)
        \/ WriteForecast(p)
        \/ ReleaseLock(p)

SpecLock == InitLock /\ [][NextLock]_vars

\* the steps of the invocation p
CallStep(p) ==
    \/ ReadConfig(p)
    \/ CheckFresh(p)
    \/ LockGet(p)
    \/ LockDelete(p)
    \/ LockCreate(p)
    \/ WaitAndReturn(p)
    \/ Fetch(p)
    \/ WriteForecast(p)
    \/ ReleaseLock(p)

\* every await of an invocation completes: an invocation that can take a
\* step takes it
SpecLockFair == SpecLock /\ \A p \in Callers : WF_vars(CallStep(p))

(***************************************************************************)
(* sendDailyNotifications: the scheduled function, over the runs of one    *)
(* day.  A run whose hour is the configured hour goes on to                *)
(* sendNotificationsToAll.                                                 *)
(***************************************************************************)
DEFAULT_NOTIFICATION_HOUR == 8

\* schedule: '0 6,7,8,9 * * *' in Europe/Zurich
ScheduledHours == {6, 7, 8, 9}

\* config/notifications: absent, without an hour field, or with an hour
NotifDocs ==
    {{}} \cup {{[hour |-> {}]}} \cup { {[hour |-> {h}]} : h \in 0..23 }

\* notifSnap.exists ? (notifSnap.data().hour ?? DEFAULT) : DEFAULT
ConfiguredHour(doc) ==
    IF doc = {} \/ \A d \in doc : d.hour = {}
    THEN DEFAULT_NOTIFICATION_HOUR
    ELSE CHOOSE h \in 0..23 : \A d \in doc : d.hour = {h}

InitSchedule ==
    /\ notifDoc \in NotifDocs
    /\ clock = 6
    /\ sentHours = {}
    /\ pc = "sendDailyNotifications"
    /\ EngineIdle
    /\ CompassIdle
    /\ AveragerIdle
    /\ MergeIdle
    /\ LockIdle
    /\ AccountIdle
    /\ PayloadIdle
    /\ SendIdle
    /\ IngestIdle
    /\ AppIdle

\* variation: the run goes on whatever the hour
RunScheduledUngated ==
    /\ clock \in ScheduledHours
    /\ sentHours' = sentHours \cup {clock}
    /\ clock' = clock + 1
    /\ UNCHANGED <<coreVars, pc, accountVars, notifDoc, payloadVars,
                   sendVars, ingestVars, appVars>>

\* one scheduled run, at the hour clock
RunScheduled ==
    /\ clock \in ScheduledHours
    /\ sentHours' = IF clock # ConfiguredHour(notifDoc) THEN sentHours
                    ELSE sentHours \cup {clock}
    /\ clock' = clock + 1
    /\ UNCHANGED <<coreVars, pc, accountVars, notifDoc, payloadVars,
                   sendVars, ingestVars, appVars>>

NextSchedule == RunScheduled

SpecSchedule == InitSchedule /\ [][NextSchedule]_vars

(***************************************************************************)
(* buildNotificationPayload: the body lines of one notification.  A spot   *)
(* is its name; its line is `${name}: ${slotTexts}`, the closing line is   *)
(* `... et ${remaining} autre(s)`.                                         *)
(***************************************************************************)
MAX_SPOTS == 4

\* the lists sendNotificationsToAll hands over: it returns on an empty one
NavigableLists ==
    UNION { [1..n -> {"Excenevex", "Morges"}] : n \in 1..MaxNavigable }

SpotLine(name) ==
    [kind |-> "spot", name |-> name, count |-> 0, plural |-> FALSE]

MoreLine(remaining) ==
    [kind |-> "more", name |-> "", count |-> remaining,
     plural |-> remaining > 1]

\* variation: no slice, every spot gets its line
NotificationLinesAll(list) ==
    [j \in 1..Len(list) |-> SpotLine(list[j])]

\* displayed.map(...) followed by the push of the closing line
NotificationLines(list) ==
    LET displayed == SubSeq(list, 1, IF Len(list) < MAX_SPOTS THEN Len(list)
                                     ELSE MAX_SPOTS)
        remaining == Len(list) - MAX_SPOTS
        shown     == [j \in 1..Len(displayed) |-> SpotLine(displayed[j])]
    IN  IF remaining > 0 THEN Append(shown, MoreLine(remaining)) ELSE shown

InitPayload ==
    /\ spots \in NavigableLists
    /\ lines = <<>>
    /\ pc = "buildNotificationPayload"
    /\ EngineIdle
    /\ CompassIdle
    /\ AveragerIdle
    /\ MergeIdle
    /\ LockIdle
    /\ AccountIdle
    /\ ScheduleIdle
    /\ SendIdle
    /\ IngestIdle
    /\ AppIdle

BuildNotificationPayload ==
    /\ pc = "buildNotificationPayload"
    /\ lines' = NotificationLines(spots)
    /\ pc' = "payload"
    /\ UNCHANGED <<coreVars, accountVars, scheduleVars, spots, sendVars,
                   ingestVars, appVars>>

NextPayload == BuildNotificationPayload

SpecPayload == InitPayload /\ [][NextPayload]_vars

(***************************************************************************)
(* sendNotificationsToAll: one task per document of pushSubscriptions,     *)
(* started together and awaited with Promise.all; a task takes a step at   *)
(* each of its awaits.  Of a subscription: compute is what                 *)
(* computeNavigableSpotsForUser does for its user (no navigable spot,      *)
(* some, or a throw), outcome what webpush.sendNotification would do.      *)
(***************************************************************************)
\* variation: any status code removes the subscription
ExpiredAnyStatus(outcome) == outcome \in {"404", "410", "500"}

\* statusCode === 410 || statusCode === 404
Expired(outcome) == outcome \in {"410", "404"}

NewTask(c, o) ==
    [ compute |-> c, outcome |-> o, pc |-> "compute", notified |-> FALSE,
      exists |-> TRUE ]

InitSend ==
    \* the push service accepts, or answers 404, 410 or 500, or the request
    \* fails without a status code
    /\ subs \in UNION { [1..n -> { NewTask(c, o) :
                            c \in {"none", "some", "throws"},
                            o \in {"sent", "404", "410", "500", "network"} }] :
                          n \in 1..MaxSubs }
    /\ pc = "sendNotificationsToAll"
    /\ EngineIdle
    /\ CompassIdle
    /\ AveragerIdle
    /\ MergeIdle
    /\ LockIdle
    /\ AccountIdle
    /\ ScheduleIdle
    /\ PayloadIdle
    /\ IngestIdle
    /\ AppIdle

\* await computeNavigableSpotsForUser: the task ends on an empty list, and
\* on a throw, which carries no statusCode
ComputeSpots(u) ==
    /\ subs[u].pc = "compute"
    /\ subs' = [subs EXCEPT ![u].pc =
                    IF subs[u].compute = "some" THEN "send" ELSE "done"]
    /\ UNCHANGED <<coreVars, pc, accountVars, scheduleVars, payloadVars,
                   ingestVars, appVars>>

\* await webpush.sendNotification and the test of the catch block
SendNotification(u) ==
    /\ subs[u].pc = "send"
    /\ subs' = [subs EXCEPT ![u] =
          IF subs[u].outcome = "sent"
          THEN [@ EXCEPT !.notified = TRUE, !.pc = "done"]
          ELSE IF Expired(subs[u].outcome) THEN [@ EXCEPT !.pc = "delete"]
          ELSE [@ EXCEPT !.pc = "done"]]
    /\ UNCHANGED <<coreVars, pc, accountVars, scheduleVars, payloadVars,
                   ingestVars, appVars>>

\* await subDoc.ref.delete()
DeleteSubscription(u) ==
    /\ subs[u].pc = "delete"
    /\ subs' = [subs EXCEPT ![u] = [@ EXCEPT !.exists = FALSE, !.pc = "done"]]
    /\ UNCHANGED <<coreVars, pc, accountVars, scheduleVars, payloadVars,
                   ingestVars, appVars>>

NextSend ==
    \E u \in DOMAIN subs :
        \/ ComputeSpots(u)
        \/ SendNotification(u)
        \/ DeleteSubscription(u)

SpecSend == InitSend /\ [][NextSend]_vars

(***************************************************************************)
(* buildSpotForecast: the hourly lists of the days, from the UTC           *)
(* timestamps of a spot.  The instant k is the hour 21:00 + k UTC of the   *)
(* Saturday before the last Sunday of October; hours are counted from      *)
(* 00:00 of that Saturday, so that a date is a number of days.             *)
(***************************************************************************)
\* Europe/Zurich is at UTC+2 until 01:00 UTC of the Sunday and at UTC+1
\* from then on
LocalHourCount(k, tz) ==
    LET utcHour == 21 + k
    IN  IF tz = "UTC" THEN utcHour
        ELSE IF utcHour < 24 + 1 THEN utcHour + 2
        ELSE utcHour + 1

\* toZurichDateStr
ToZurichDate(k, tz) == LocalHourCount(k, tz) \div 24

\* toLocalHour
ToLocalHour(k, tz) == LocalHourCount(k, tz) % 24

\* the timestamps of a spot are the keys of a Map, distinct and in the
\* order of their insertion
TimestampLists ==
    { ts \in SeqsUpTo(0..MaxInstant, MaxStamps) :
        \A a, b \in 1..Len(ts) : ts[a] = ts[b] => a = b }

\* dayMap.get(date): the samples of the date, in the order of the
\* timestamps; ts identifies the values of a sample
RECURSIVE DayHours(_, _, _)
DayHours(ts, tz, date) ==
    IF ts = <<>> THEN <<>>
    ELSE LET rest == DayHours(Tail(ts), tz, date)
         IN  IF ToZurichDate(Head(ts), tz) = date
             THEN <<[ts |-> Head(ts),
                     hour |-> ToLocalHour(Head(ts), tz)]>> \o rest
             ELSE rest

\* x placed behind the samples of sorted whose hour is not greater
RECURSIVE InsertByHour(_, _)
InsertByHour(sorted, x) ==
    IF sorted = <<>> THEN <<x>>
    ELSE IF Head(sorted).hour <= x.hour
         THEN <<Head(sorted)>> \o InsertByHour(Tail(sorted), x)
         ELSE <<x>> \o sorted

\* .sort((a, b) => a.hour - b.hour), which is stable
RECURSIVE SortByHour(_)
SortByHour(list) ==
    IF list = <<>> THEN <<>>
    ELSE InsertByHour(SortByHour(SubSeq(list, 1, Len(list) - 1)),
                      list[Len(list)])

\* .filter(h => h.hour >= dayStartHour && h.hour < dayEndHour)
DayWindowHours(list, w) ==
    SelectSeq(list, LAMBDA h : h.hour >= w[1] /\ h.hour < w[2])

\* [...dayMap.keys()].sort()
RECURSIVE SortedDates(_)
SortedDates(dates) ==
    IF dates = {} THEN <<>>
    ELSE LET first == CHOOSE d \in dates : \A e \in dates : d <= e
         IN  <<first>> \o SortedDates(dates \ {first})

\* the days of the SpotForecast
BuildDays(ts, tz, w) ==
    LET sortedDates ==
            SortedDates({ ToZurichDate(ts[j], tz) : j \in 1..Len(ts) })
    IN  [ j \in 1..Len(sortedDates) |->
            [ date |-> sortedDates[j],
              hourly |-> DayWindowHours(
                           SortByHour(DayHours(ts, tz, sortedDates[j])), w) ] ]

InitIngest ==
    /\ timestamps \in TimestampLists
    /\ timezone \in {"Europe/Zurich", "UTC"}
    /\ dayWindow \in {<<0, 24>>, <<3, 24>>}
    /\ days = <<>>
    /\ pc = "buildSpotForecast"
    /\ EngineIdle
    /\ CompassIdle
    /\ AveragerIdle
    /\ MergeIdle
    /\ LockIdle
    /\ AccountIdle
    /\ ScheduleIdle
    /\ PayloadIdle
    /\ SendIdle
    /\ AppIdle

BuildSpotForecast ==
    /\ pc = "buildSpotForecast"
    /\ days' = BuildDays(timestamps, timezone, dayWindow)
    /\ pc' = "spotForecast"
    /\ UNCHANGED <<coreVars, accountVars, scheduleVars, payloadVars, sendVars,
                   timestamps, timezone, dayWindow, appVars>>

NextIngest == BuildSpotForecast

SpecIngest == InitIngest /\ [][NextIngest]_vars

(***************************************************************************)
(* App: the effect that forces a refresh when a configured spot is missing *)
(* from the forecast.  A spot config is its pointId.  pc is "useEffect"    *)
(* between a state change and the run of the effect that follows its       *)
(* render, "App" otherwise.                                                *)
(***************************************************************************)
PointIds == {1, 2}

SpotConfigLists == SeqsUpTo(PointIds, MaxSpotConfigs)

\* spotConfigs.some(s => !forecastPointIds.has(s.pointId)), forecast being
\* data.spots
OutOfSync(cfgs, forecast) ==
    \E j \in 1..Len(cfgs) : \A ids \in forecast : cfgs[j] \notin ids

RECURSIVE InsertId(_, _)
InsertId(sorted, x) ==
    IF sorted = <<>> THEN <<x>>
    ELSE IF Head(sorted) <= x
         THEN <<Head(sorted)>> \o InsertId(Tail(sorted), x)
         ELSE <<x>> \o sorted

\* spotConfigs.map(s => s.pointId).sort().join(','): the sorted pointIds,
\* '' for none
RECURSIVE ConfigKey(_)
ConfigKey(cfgs) ==
    IF cfgs = <<>> THEN <<>>
    ELSE InsertId(ConfigKey(Tail(cfgs)), Head(cfgs))

\* count of the effect: the retries of the current key
RetryCount(cfgs) ==
    IF syncRetries.key = ConfigKey(cfgs) THEN syncRetries.count ELSE 0

InitApp ==
    /\ spotConfigs = <<>>
    /\ data = {}
    /\ refreshing = FALSE
    /\ syncRetries = [key |-> <<>>, count |-> 0]
    /\ forced = 0
    /\ configLoaded = FALSE
    /\ pc = "App"
    /\ EngineIdle
    /\ CompassIdle
    /\ AveragerIdle
    /\ MergeIdle
    /\ LockIdle
    /\ AccountIdle
    /\ ScheduleIdle
    /\ PayloadIdle
    /\ SendIdle
    /\ IngestIdle

\* useConfig, loadConfig: runs once per mount and sets the spots read
LoadConfig ==
    /\ pc = "App"
    /\ ~configLoaded
    /\ spotConfigs' \in SpotConfigLists
    /\ configLoaded' = TRUE
    /\ pc' = "useEffect"
    /\ UNCHANGED <<coreVars, accountVars, scheduleVars, payloadVars, sendVars,
                   ingestVars, data, refreshing, syncRetries, forced>>

\* useForecast: a snapshot of forecasts/latest arrives
ForecastSnapshot ==
    /\ pc = "App"
    /\ data' \in { {ids} : ids \in SUBSET PointIds }
    /\ data' # data
    /\ pc' = "useEffect"
    /\ UNCHANGED <<coreVars, accountVars, scheduleVars, payloadVars, sendVars,
                   ingestVars, spotConfigs, refreshing, syncRetries, forced,
                   configLoaded>>

\* triggerRefresh called by useForecast itself or by the user
OtherRefresh ==
    /\ pc = "App"
    /\ ~refreshing
    /\ refreshing' = TRUE
    /\ pc' = "useEffect"
    /\ UNCHANGED <<coreVars, accountVars, scheduleVars, payloadVars, sendVars,
                   ingestVars, spotConfigs, data, syncRetries, forced,
                   configLoaded>>

\* triggerRefresh, finally: the call has returned or thrown
RefreshDone ==
    /\ pc = "App"
    /\ refreshing
    /\ refreshing' = FALSE
    /\ pc' = "useEffect"
    /\ UNCHANGED <<coreVars, accountVars, scheduleVars, payloadVars, sendVars,
                   ingestVars, spotConfigs, data, syncRetries, forced,
                   configLoaded>>

\* variation: the effect without the test of the count
SyncEffectUnbounded ==
    /\ pc = "useEffect"
    /\ pc' = "App"
    /\ IF data = {} \/ refreshing \/ ~OutOfSync(spotConfigs, data)
       THEN UNCHANGED <<refreshing, syncRetries, forced>>
       ELSE /\ syncRetries' = [key |-> ConfigKey(spotConfigs),
                               count |-> RetryCount(spotConfigs) + 1]
            /\ refreshing' = TRUE
            /\ forced' = forced + 1
    /\ UNCHANGED <<coreVars, accountVars, scheduleVars, payloadVars, sendVars,
                   ingestVars, spotConfigs, data, configLoaded>>

\* the effect, followed by refresh({ force: true }) up to setRefreshing(true)
SyncEffect ==
    /\ pc = "useEffect"
    /\ pc' = "App"
    /\ IF \/ data = {}
          \/ refreshing
          \/ ~OutOfSync(spotConfigs, data)
          \/ RetryCount(spotConfigs) >= 3
       THEN UNCHANGED <<refreshing, syncRetries, forced>>
       ELSE /\ syncRetries' = [key |-> ConfigKey(spotConfigs),
                               count |-> RetryCount(spotConfigs) + 1]
            /\ refreshing' = TRUE
            /\ forced' = forced + 1
    /\ UNCHANGED <<coreVars, accountVars, scheduleVars, payloadVars, sendVars,
                   ingestVars, spotConfigs, data, configLoaded>>

NextApp ==
    \/ LoadConfig
    \/ ForecastSnapshot
    \/ OtherRefresh
    \/ RefreshDone
    \/ SyncEffect

SpecApp == InitApp /\ [][NextApp]_vars

SpecCompass == InitCompass /\ [][NextCompass]_vars

SpecAnyConfig == InitAnyConfig /\ [][NextAnyConfig]_vars

(***************************************************************************)
(* Vocabulary of the properties.                                           *)
(***************************************************************************)
\* the input is ascending by hour with no hour twice
HourAscending(hs) ==
    \A j \in 1..(Len(hs) - 1) : hs[j].hour < hs[j + 1].hour

\* the navigability predicate as the properties state it
MeetsThresholds(h) ==
    /\ h.speed >= config.windSpeedMin
    /\ h.gust >= config.gustMin
    /\ (variant = "functions" => \A m \in config.windSpeedMax : h.speed <= m)

\* the hour lies in the day window [dayStartHour, dayEndHour)
InDayWindow(h) ==
    config.dayStartHour <= h.hour /\ h.hour < config.dayEndHour

\* the input with the samples outside the day window removed
WindowSamples == SelectSeq(hourly, InDayWindow)

\* the sample is classified navigable by the running copy
Classified(h) == IsNavigable(h, config, variant)

\* maximal runs <<a, b>> of consecutive navigable samples of the sequence V
NavRuns(V) ==
    { r \in (1..Len(V)) \X (1..Len(V)) :
        /\ r[1] <= r[2]
        /\ \A j \in r[1]..r[2] : Classified(V[j])
        /\ (r[1] = 1 \/ ~Classified(V[r[1] - 1]))
        /\ (r[2] = Len(V) \/ ~Classified(V[r[2] + 1])) }

\* the maximal runs with at least minConsecutiveHours samples
LongRuns(V) ==
    { r \in NavRuns(V) : r[2] - r[1] + 1 >= config.minConsecutiveHours }

SlotIndexes == 1..Len(slots)

(***************************************************************************)
(* C1 - Threshold soundness: on hour-ascending, hour-unique input, every   *)
(* input sample whose hour lies in [start, end) of a returned slot meets   *)
(* the speed and gust minimums, and the speed ceiling in the copy that     *)
(* has one.                                                                *)
(***************************************************************************)
ThresholdSoundness ==
    (pc = "done" /\ HourAscending(hourly)) =>
        \A k \in SlotIndexes : \A j \in 1..Len(hourly) :
            (slots[k].start <= hourly[j].hour /\ hourly[j].hour < slots[k].end)
                => MeetsThresholds(hourly[j])

\* a slot was returned for a sorted day that also has a sample below the
\* thresholds
ThresholdSoundnessWitness ==
    /\ pc = "done"
    /\ HourAscending(hourly)
    /\ Len(hourly) = MaxLen
    /\ slots # <<>>
    /\ \E j \in 1..Len(hourly) :
          InDayWindow(hourly[j]) /\ ~MeetsThresholds(hourly[j])

(***************************************************************************)
(* C2 - Minimum length: every returned slot has hours >=                   *)
(* minConsecutiveHours, for every input and every config with              *)
(* minConsecutiveHours >= 1.                                               *)
(***************************************************************************)
MinimumLength ==
    (pc = "done" /\ config.minConsecutiveHours >= 1) =>
        \A k \in SlotIndexes : slots[k].hours >= config.minConsecutiveHours

\* an unsorted day whose run has just the minimum of 2 or more samples
MinimumLengthWitness ==
    /\ pc = "done"
    /\ config.minConsecutiveHours >= 2
    /\ ~HourAscending(hourly)
    /\ \E k \in SlotIndexes : slots[k].hours = config.minConsecutiveHours

(***************************************************************************)
(* C3 - Completeness: on hour-ascending, hour-unique input there is        *)
(* exactly one slot for each maximal run of consecutive in-window          *)
(* navigable samples with at least minConsecutiveHours samples, closed by  *)
(* a non-navigable sample or by the end of the sequence, with start = hour *)
(* of the first sample and end = hour of the last sample + 1, and there is *)
(* no other slot.                                                          *)
(***************************************************************************)
SlotOfRun(k, r) ==
    /\ slots[k].start = WindowSamples[r[1]].hour
    /\ slots[k].end = WindowSamples[r[2]].hour + 1

Completeness ==
    (pc = "done" /\ HourAscending(hourly)) =>
        /\ \A r \in LongRuns(WindowSamples) :
              Cardinality({k \in SlotIndexes : SlotOfRun(k, r)}) = 1
        /\ \A k \in SlotIndexes :
              \E r \in LongRuns(WindowSamples) : SlotOfRun(k, r)

\* a run closed by a non-navigable sample and a run closed by the end of
\* the sequence, both returned
CompletenessWitness ==
    /\ pc = "done"
    /\ HourAscending(hourly)
    /\ Len(slots) = 2
    /\ \E r \in LongRuns(WindowSamples) : r[2] = Len(WindowSamples)
    /\ \E r \in LongRuns(WindowSamples) : r[2] < Len(WindowSamples)

(***************************************************************************)
(* C4 - Ordering: on hour-ascending, hour-unique input the returned slots  *)
(* are sorted by ascending start and slots[k].end <= slots[k+1].start.     *)
(***************************************************************************)
Ordering ==
    (pc = "done" /\ HourAscending(hourly)) =>
        \A k \in SlotIndexes : k < Len(slots) =>
            /\ slots[k].start <= slots[k + 1].start
            /\ slots[k].end <= slots[k + 1].start

OrderingWitness ==
    /\ pc = "done"
    /\ HourAscending(hourly)
    /\ Len(slots) >= 2

(***************************************************************************)
(* C5 - Window containment: for every input, sorted or not, every returned *)
(* slot has dayStartHour <= start and end <= dayEndHour.                   *)
(***************************************************************************)
WindowContainment ==
    pc = "done" =>
        \A k \in SlotIndexes :
            /\ config.dayStartHour <= slots[k].start
            /\ slots[k].end <= config.dayEndHour

\* a slot that ends at the edge of the window, from a day that also has a
\* navigable sample at the first hour outside the window
WindowContainmentWitness ==
    /\ pc = "done"
    /\ \E k \in SlotIndexes : slots[k].end = config.dayEndHour
    /\ \E j \in 1..Len(hourly) :
          hourly[j].hour = config.dayEndHour /\ Classified(hourly[j])
(***************************************************************************)
(* C6 - Duration consistency, as stated: on hour-ascending, hour-unique    *)
(* input every returned slot has hours = end - start.                      *)
(***************************************************************************)
DurationConsistency ==
    (pc = "done" /\ HourAscending(hourly)) =>
        \A k \in SlotIndexes : slots[k].hours = slots[k].end - slots[k].start

\* every hour of [start, end) of slot k has a sample in the input
NoMissingHour(k) ==
    \A hr \in slots[k].start..(slots[k].end - 1) :
        \E j \in 1..Len(hourly) : hourly[j].hour = hr

(***************************************************************************)
(* C6, amended - on hour-ascending, hour-unique input every returned slot  *)
(* has hours <= end - start, and hours = end - start when no hour of       *)
(* [start, end) is missing from the input.                                 *)
(***************************************************************************)
DurationConsistencyDense ==
    (pc = "done" /\ HourAscending(hourly)) =>
        \A k \in SlotIndexes :
            /\ slots[k].hours <= slots[k].end - slots[k].start
            /\ NoMissingHour(k) =>
                  slots[k].hours = slots[k].end - slots[k].start

\* a slot of two or more hours over a stretch of the day without a gap
DurationConsistencyDenseWitness ==
    /\ pc = "done"
    /\ HourAscending(hourly)
    /\ \E k \in SlotIndexes : slots[k].hours >= 2 /\ NoMissingHour(k)

\* positions j of V where two navigable neighbours are more than an hour
\* apart
Gaps(V) ==
    { j \in 1..(Len(V) - 1) :
        /\ Classified(V[j])
        /\ Classified(V[j + 1])
        /\ V[j + 1].hour > V[j].hour + 1 }

(***************************************************************************)
(* C7 - Gap tolerance: on hour-ascending input, when an hour is missing    *)
(* between two navigable in-window samples, no slot ends before the gap or *)
(* starts after it, and if their run has at least minConsecutiveHours      *)
(* samples a single slot spans both sides of the gap.                      *)
(***************************************************************************)
GapTolerance ==
    (pc = "done" /\ HourAscending(hourly)) =>
        \A j \in Gaps(WindowSamples) :
            LET before == WindowSamples[j].hour
                after == WindowSamples[j + 1].hour
            IN  /\ \A k \in SlotIndexes :
                      slots[k].end # before + 1 /\ slots[k].start # after
                /\ \A r \in LongRuns(WindowSamples) :
                      (r[1] <= j /\ j < r[2]) =>
                          \E k \in SlotIndexes :
                              /\ slots[k].start <= before
                              /\ slots[k].end > after
                              /\ slots[k].hours = r[2] - r[1] + 1

\* hours 0 and 2 navigable, hour 1 absent: one slot from 0 to 3 of 2 hours
GapToleranceWitness ==
    /\ pc = "done"
    /\ HourAscending(hourly)
    /\ Gaps(WindowSamples) # {}
    /\ Len(slots) = 1
    /\ slots[1].hours < slots[1].end - slots[1].start
\* the samples scanned so far
Scanned == SubSeq(validHours, 1, i - 1)

(***************************************************************************)
(* C8 - Run reset: once a non-navigable in-window sample has been scanned  *)
(* the run buffer is empty and the run-start marker is -1, whether or not  *)
(* a slot was emitted; the buffer never holds a sample scanned before the  *)
(* last non-navigable one, and every slot is built from one maximal run of *)
(* at least minConsecutiveHours samples and from nothing else, so a        *)
(* shorter run gives no slot and adds nothing to a later one.              *)
(***************************************************************************)
RunReset ==
    pc \in {"loop", "done"} =>
        /\ (i > 1 /\ ~Classified(validHours[i - 1])) =>
              (runHours = <<>> /\ runStart = -1)
        /\ \A r \in NavRuns(Scanned) :
              r[2] = Len(Scanned) => runHours = SubSeq(Scanned, r[1], r[2])
        /\ \A k \in SlotIndexes :
              \E r \in LongRuns(validHours) :
                  slots[k] = BuildSlot(validHours[r[1]].hour,
                                       SubSeq(validHours, r[1], r[2]))

\* two one-sample runs around a non-navigable sample under a minimum of 2:
\* nothing is returned
RunResetWitness ==
    /\ pc = "done"
    /\ config.minConsecutiveHours = 2
    /\ Len(validHours) = 3
    /\ Classified(validHours[1])
    /\ ~Classified(validHours[2])
    /\ Classified(validHours[3])
    /\ slots = <<>>

(***************************************************************************)
(* C9 - Out-of-window samples are never examined: for every input, sorted  *)
(* or not, the slots returned equal those calculateSlots returns for the   *)
(* input with the samples outside [dayStartHour, dayEndHour) removed.      *)
(***************************************************************************)
OutOfWindowIgnored ==
    pc = "done" => slots = CalculateSlots(WindowSamples, config, variant)

\* a sample outside the window between two navigable samples inside it,
\* and a slot returned
OutOfWindowIgnoredWitness ==
    /\ pc = "done"
    /\ slots # <<>>
    /\ \E j \in 2..(Len(hourly) - 1) :
          /\ ~InDayWindow(hourly[j])
          /\ InDayWindow(hourly[j - 1]) /\ Classified(hourly[j - 1])
          /\ InDayWindow(hourly[j + 1]) /\ Classified(hourly[j + 1])

\* invocations a and b of the history had the same arguments
SameArguments(a, b) ==
    /\ history[a].hourly = history[b].hourly
    /\ history[a].config = history[b].config

(***************************************************************************)
(* C10 - Determinism: two invocations with the same hourly sequence and    *)
(* the same config return the same slot list, whatever invocations came    *)
(* before or in between.                                                   *)
(***************************************************************************)
Determinism ==
    /\ \A a, b \in 1..Len(history) :
          SameArguments(a, b) => history[a].result = history[b].result
    /\ pc = "done" =>
          \A a \in 1..Len(history) :
              (history[a].hourly = hourly /\ history[a].config = config)
                  => history[a].result = slots

\* the same day evaluated first and third, another day in between, slots
\* returned each time
DeterminismWitness ==
    /\ Len(history) = 3
    /\ SameArguments(1, 3)
    /\ ~SameArguments(1, 2)
    /\ history[1].result # <<>>
    /\ history[2].result # <<>>
    /\ history[2].result # history[1].result
NoExceptions == pc # "threw"

(***************************************************************************)
(* C13 - Speed ceiling when configured: when the config has a              *)
(* windSpeedMax, no sample of a sorted day with a speed above it lies      *)
(* inside a returned slot, in either copy of calculateSlots.               *)
(***************************************************************************)
SpeedCeilingConfigured ==
    (pc = "done" /\ HourAscending(hourly) /\ config.windSpeedMax # {}) =>
        \A k \in SlotIndexes : \A j \in 1..Len(hourly) :
            (slots[k].start <= hourly[j].hour /\ hourly[j].hour < slots[k].end)
                => \A m \in config.windSpeedMax : hourly[j].speed <= m

(***************************************************************************)
(* C14 - Speed ceiling when absent: when the config has no windSpeedMax,   *)
(* every scanned sample is classified navigable exactly when its speed is  *)
(* at least windSpeedMin and its gust at least gustMin, in either copy of  *)
(* calculateSlots.                                                         *)
(***************************************************************************)
SpeedCeilingAbsent ==
    (pc = "done" /\ config.windSpeedMax = {}) =>
        \A j \in 1..Len(validHours) :
            Classified(validHours[j])
                <=> ( /\ validHours[j].speed >= config.windSpeedMin
                      /\ validHours[j].gust >= config.gustMin )

(***************************************************************************)
(* C15 - Compass wrap: for every argument from 0 to 360 degrees dirText    *)
(* returns the label of the 22.5-degree sector around the argument, taken  *)
(* modulo 16: always one of the 16 labels, and N, the label of 0, from     *)
(* 348.75 degrees on.                                                      *)
(***************************************************************************)
CompassWrap ==
    pc = "labelled" =>
        /\ \E k \in 0..16 :
              /\ 2250 * k - 1125 <= deg
              /\ deg < 2250 * k + 1125
              /\ label = dirs[(k % 16) + 1]
        /\ \E n \in 1..16 : label = dirs[n]
        /\ deg >= 34875 => (label = "N" /\ label = DirTextCenti(0))

\* dirText(359.9) was called
CompassWrapWitness == pc = "labelled" /\ deg = 35990 /\ label = "N"

(***************************************************************************)
(* C16 - Range of the directional average: for every non-empty list of     *)
(* directions the value returned by averageDirection is at least 0 and     *)
(* below 360.                                                              *)
(***************************************************************************)
AverageInRange ==
    pc \in {"averaged", "labelled"} => (0 <= average /\ average < 360)

(***************************************************************************)
(* C17 - Circular mean across north: for the lists [350, 10] and           *)
(* [350, 0, 10] averageDirection returns 0 to within one degree of         *)
(* rounding, a value of the range [0, 360), and the label made of it is N. *)
(***************************************************************************)
NorthMean ==
    ( /\ pc \in {"averaged", "labelled"}
      /\ directions \in { <<350, 10>>, <<350, 0, 10>> } )
        => /\ average \in {359, 0, 1}
           /\ pc = "labelled" => label = "N"

(***************************************************************************)
(* C18 - Per-user override limited to two fields: the effective config     *)
(* made of a global config, by useEffectiveConfig and by                   *)
(* computeNavigableSpotsForUser alike, has the fields of the global config *)
(* and the global config's minConsecutiveHours, dayStartHour, dayEndHour,  *)
(* windSpeedMax and timezone.                                              *)
(***************************************************************************)
OverrideFrame ==
    pc \in {"effectiveConfig", "effectiveNav"} =>
        /\ globalConfig # {} => effectiveConfig # {}
        /\ \A g \in globalConfig : \A e \in effectiveConfig :
              /\ DOMAIN e = DOMAIN g
              /\ e.minConsecutiveHours = g.minConsecutiveHours
              /\ e.dayStartHour = g.dayStartHour
              /\ e.dayEndHour = g.dayEndHour
              /\ e.windSpeedMax = g.windSpeedMax
              /\ e.timezone = g.timezone

\* both thresholds of a global config with a ceiling were overridden
OverrideFrameWitness ==
    /\ pc \in {"effectiveConfig", "effectiveNav"}
    /\ preferences # {}
    /\ \E g \in globalConfig : \E e \in effectiveConfig :
          /\ e.windSpeedMin # g.windSpeedMin
          /\ e.gustMin # g.gustMin
          /\ g.windSpeedMax # {}

(***************************************************************************)
(* C19 - Refresh lock mutual exclusion: at no time are two invocations of  *)
(* refreshForecast between a successful acquireLock and the end of their   *)
(* releaseLock, a stale lock document at the start included.               *)
(***************************************************************************)
LockMutualExclusion ==
    \A p, q \in Callers : (Holds(p) /\ Holds(q)) => p = q

(***************************************************************************)
(* C20 - One-hour cache, as stated: a call without force made while        *)
(* forecasts/latest is less than one hour old returns 'fresh', never       *)
(* tries the lock and never writes; a call with force never returns        *)
(* 'fresh' and returns only after trying the lock.                         *)
(***************************************************************************)
OneHourCacheAlways ==
    \A p \in Callers :
        calls[p].pc = "returned" =>
            /\ (~calls[p].force /\ calls[p].freshAtCall)
                  => /\ calls[p].status = "fresh"
                     /\ ~calls[p].lockTried
                     /\ ~calls[p].wrote
            /\ calls[p].force
                  => (calls[p].status # "fresh" /\ calls[p].lockTried)

(***************************************************************************)
(* C20, amended - One-hour cache: when the two config documents exist, a   *)
(* call without force made while forecasts/latest is less than one hour    *)
(* old returns 'fresh', never tries the lock and never writes, and a call  *)
(* with force never returns 'fresh' and returns only after trying the      *)
(* lock.                                                                   *)
(***************************************************************************)
OneHourCache ==
    configDocs =>
        \A p \in Callers :
            calls[p].pc = "returned" =>
                /\ (~calls[p].force /\ calls[p].freshAtCall)
                      => /\ calls[p].status = "fresh"
                         /\ ~calls[p].lockTried
                         /\ ~calls[p].wrote
                /\ calls[p].force
                      => (calls[p].status # "fresh" /\ calls[p].lockTried)

\* with fresh data at the start, one call was answered from the cache and a
\* forced call has refreshed
OneHourCacheWitness ==
    /\ configDocs
    /\ \E p, q \in Callers :
          /\ calls[p].pc = "returned"
          /\ ~calls[p].force
          /\ calls[p].freshAtCall
          /\ calls[p].status = "fresh"
          /\ calls[q].pc = "returned"
          /\ calls[q].force
          /\ calls[q].freshAtCall
          /\ calls[q].status = "refreshed"

(***************************************************************************)
(* C25 - buildSlot precondition: under a config with minConsecutiveHours   *)
(* >= 1, throughout the scan runStart is -1 exactly when the run buffer is *)
(* empty, a non-empty buffer holds navigable samples only and runStart is  *)
(* the hour of its first sample; so every buildSlot call gets a non-empty  *)
(* navigable run and its first hour, and no slot starts at -1.             *)
(***************************************************************************)
BuildSlotPrecondition ==
    (pc \in {"loop", "done"} /\ config.minConsecutiveHours >= 1) =>
        /\ (runStart = -1) <=> (runHours = <<>>)
        /\ runHours # <<>> => runStart = runHours[1].hour
        /\ \A j \in 1..Len(runHours) : Classified(runHours[j])
        /\ (pc = "loop" /\ AtEmission
                /\ Len(runHours) >= config.minConsecutiveHours)
              => runHours # <<>>
        /\ \A k \in SlotIndexes : slots[k].start # -1 /\ slots[k].hours >= 1

\* the scan is about to call buildSlot on a run of two samples or more
BuildSlotPreconditionWitness ==
    /\ pc = "loop"
    /\ AtEmission
    /\ Len(runHours) >= config.minConsecutiveHours
    /\ Len(runHours) >= 2
    /\ runStart = runHours[1].hour

(***************************************************************************)
(* C26 - Slot direction is always a label: the direction of every returned *)
(* slot is one of the 16 compass labels, also when averageDirection        *)
(* returns 360, its largest value.                                         *)
(***************************************************************************)
DirectionIsLabel ==
    pc = "done" =>
        \A k \in SlotIndexes : \E n \in 1..16 : slots[k].direction = dirs[n]

\* a slot was built from a run whose directions average to 360
DirectionIsLabelWitness ==
    /\ pc = "done"
    /\ Len(slots) = 1
    /\ validHours # <<>>
    /\ slots[1].hours = Len(validHours)
    /\ AverageDirection(DirsOf(validHours)) = 360
    /\ slots[1].direction = "N"

(***************************************************************************)
(* C27 - Averages respect the thresholds: every returned slot has avgSpeed *)
(* >= windSpeedMin and avgGust >= gustMin.                                 *)
(***************************************************************************)
AveragesMeetThresholds ==
    pc = "done" =>
        \A k \in SlotIndexes :
            /\ slots[k].avgSpeed >= config.windSpeedMin
            /\ slots[k].avgGust >= config.gustMin

\* a slot was returned whose mean speed is not an integer
AveragesMeetThresholdsWitness ==
    /\ pc = "done"
    /\ Len(slots) = 1
    /\ slots[1].hours = Len(validHours)
    /\ SumOf(validHours, "speed") % Len(validHours) # 0
    /\ slots[1].avgSpeed >= config.windSpeedMin

(***************************************************************************)
(* C21 - Notification hour gating: a scheduled run goes on to send only at *)
(* the configured hour, which is 8 when config/notifications is missing or *)
(* has no hour; over the runs of 6h, 7h, 8h and 9h of one day at most one  *)
(* run sends, and once the four have run exactly one has sent when the     *)
(* configured hour is in 6..9.                                             *)
(***************************************************************************)
HourGating ==
    LET hour == IF notifDoc = {} \/ [hour |-> {}] \in notifDoc THEN 8
                ELSE CHOOSE h \in 0..23 : [hour |-> {h}] \in notifDoc
    IN  pc = "sendDailyNotifications" =>
            /\ \A h \in sentHours : h = hour
            /\ Cardinality(sentHours) <= 1
            /\ (clock > 9 /\ hour \in 6..9) => Cardinality(sentHours) = 1

\* the four runs are over and the one of 7h has sent
HourGatingWitness ==
    /\ pc = "sendDailyNotifications"
    /\ clock > 9
    /\ notifDoc = {[hour |-> {7}]}
    /\ sentHours = {7}

(***************************************************************************)
(* C22 - Notification body bound: for n >= 1 navigable spots the body has  *)
(* one line per spot for the first min(n, 4) spots, in order, and a last   *)
(* line "... et X autre(s)" with X = n - 4 exactly when n > 4; no spot     *)
(* after the fourth has a line of its own.                                 *)
(***************************************************************************)
BodyBound ==
    pc = "payload" =>
        LET n == Len(spots)
            k == IF n < 4 THEN n ELSE 4
        IN  /\ Len(lines) = IF n > 4 THEN k + 1 ELSE k
            /\ \A j \in 1..k :
                   lines[j].kind = "spot" /\ lines[j].name = spots[j]
            /\ n > 4 => lines[k + 1].kind = "more"
                         /\ lines[k + 1].count = n - 4
            /\ Cardinality({j \in 1..Len(lines) : lines[j].kind = "spot"}) <= 4

\* six spots: four lines and "... et 2 autres"
BodyBoundWitness ==
    /\ pc = "payload"
    /\ Len(spots) = 6
    /\ Len(lines) = 5
    /\ lines[5].count = 2
    /\ lines[5].plural

(***************************************************************************)
(* C24 - No override without preferences: for a user who has no stored     *)
(* preferences the effective config equals the global config in every      *)
(* field, in the frontend (useEffectiveConfig) and in the notification     *)
(* backend (computeNavigableSpotsForUser).                                 *)
(***************************************************************************)
NoOverrideWithoutPreferences ==
    (pc \in {"effectiveConfig", "effectiveNav"} /\ user /\ storedPrefs = {})
        => effectiveConfig = globalConfig

HourlyAscendingUnique ==
    pc = "spotForecast" =>
        \A d \in 1..Len(days) :
            \A a, b \in 1..Len(days[d].hourly) :
                a < b => days[d].hourly[a].hour < days[d].hourly[b].hour

(***************************************************************************)
(* C30 - Bounded auto-resync: while the set of configured pointIds stays   *)
(* the same, App forces at most 3 refreshes in total, whatever the         *)
(* re-renders, refresh completions and forecast snapshots; the retry count *)
(* never exceeds 3 and goes back only when the key of sorted configured    *)
(* pointIds changes.                                                       *)
(***************************************************************************)
BoundedResync ==
    /\ [](pc \in {"App", "useEffect"} =>
            /\ forced <= 3
            /\ syncRetries.count <= 3
            /\ forced > 0 => configLoaded)
    /\ [][(pc \in {"App", "useEffect"}
            /\ syncRetries'.key = syncRetries.key) =>
              syncRetries'.count >= syncRetries.count]_vars

\* three forced refreshes have been made and have ended, a configured spot
\* is still missing from the forecast, and the effect has run and made no
\* fourth
BoundedResyncWitness ==
    /\ pc = "App"
    /\ forced = 3
    /\ syncRetries.count = 3
    /\ data # {}
    /\ ~refreshing
    /\ OutOfSync(spotConfigs, data)

====
